---- MODULE Spec2Model ----
(***************************************************************************)
(* A model of webpack_manifest.py: load / build / read, the process-wide   *)
(* MANIFEST_CACHE, the manifest file written by the external bundler, and  *)
(* the wall clock read by the debug poll loop.                             *)
(*                                                                         *)
(* Strings that the code inspects or assembles (paths, urls, messages,     *)
(* tags) are sequences of tokens, so that endswith, split, join and format *)
(* are computed.  The text of the file is one of a few documents, named by *)
(* their JSON text; JsonLoads parses them.                                 *)
(* Time is counted in ticks of 100 ms.                                     *)
(***************************************************************************)
EXTENDS Integers, Sequences, FiniteSets, TLC

\* ---------------------------------------------------------------- bounds

\* load is not called any more once the clock has passed MaxClock ticks
MaxClock == 1
\* the largest timeout argument, in ticks
MaxTimeout == 2
\* a sleep may last up to MaxJitter ticks longer than asked
MaxJitter == 1
\* the longest list of relative paths of the entry "main" (EntrySpec)
MaxPaths == 2

\* ------------------------------------------------------ program constants

\* time.sleep(0.1) in the poll loop: one tick
PollInterval == 1
\* read_retry = 1 (second) when debug and read_retry is None: ten ticks
DefaultReadRetry == 10
\* the timeout=60 seconds default does not fit the clock's bounds; the
\* argument is drawn from 0..MaxTimeout ticks instead

BUILDING_STATUS == "building"
BUILT_STATUS == "built"
ERRORS_STATUS == "errors"

\* Python's None
None == "<None>"

\* ------------------------------------------------------------ the inputs

\* the threads of the process that may call load
Callers == {"main", "worker"}
MainThread == "main"

\* both paths name the same file (the working directory is "/")
AbsPath == <<"/", "m">>
RelPath == <<"m">>
Paths == {AbsPath, RelPath}

StaticUrls == {<<"/", "s">>, <<"/", "s", "/">>}

\* read_retry=None: the argument left out
RetryNone == -1
\* the read_retry argument: left out, zero, or a delay in ticks
ReadRetries == {RetryNone, 0, 2}

\* the documents the bundler may leave in the file
DocEmpty == ""
DocArray == "[]"
DocNoStatus == "{}"
DocBuilding == "{\"status\": \"building\"}"
DocOther == "{\"status\": \"idle\", \"files\": {\"main\": [\"e.js\"]}}"
DocErrors == "{\"status\": \"errors\", \"errors\": [\"e1\", \"e2\"]}"
DocErrorsOne == "{\"status\": \"errors\", \"errors\": [\"e2\"]}"
DocErrorsBare == "{\"status\": \"errors\"}"
DocBuiltA == "{\"status\": \"built\", \"files\": {\"main\": [\"a/b.js\", \"c.css\", \"d.txt\"]}}"
DocBuiltB == "{\"status\": \"built\", \"files\": {\"main\": [\"e.js\"], \"vendor\": [\"v.css\", \"w.js\"]}}"
DocBuiltBare == "{\"status\": \"built\"}"

Docs == {DocEmpty, DocArray, DocNoStatus, DocBuilding, DocOther, DocErrors,
         DocErrorsOne, DocErrorsBare, DocBuiltA, DocBuiltB, DocBuiltBare}

FilesA == [main |-> << <<"a", "/", "b", ".", "j", "s">>,
                       <<"c", ".", "c", "s", "s">>,
                       <<"d", ".", "t", "x", "t">> >>]
FilesB == [main |-> << <<"e", ".", "j", "s">> >>,
           vendor |-> << <<"v", ".", "c", "s", "s">>, <<"w", ".", "j", "s">> >>]

\* the states of the file: absent, a directory, or a regular file with a text
FileStates == {[kind |-> "missing", text |-> DocEmpty],
               [kind |-> "dir", text |-> DocEmpty]}
              \cup {[kind |-> "file", text |-> d] : d \in Docs}

\* ------------------------------------------------------- pure operators

\* {} : a dict with no key
EmptyDict == [k \in {} |-> None]

\* json.loads: the parsed value of a document, or the ValueError
JsonLoads(text) ==
    CASE text = DocArray -> [type |-> "list", val |-> <<>>]
      [] text = DocNoStatus -> [type |-> "dict", val |-> EmptyDict]
      [] text = DocBuilding -> [type |-> "dict", val |-> [status |-> "building"]]
      [] text = DocOther ->
            [type |-> "dict",
             val |-> [status |-> "idle", files |-> [main |-> << <<"e", ".", "j", "s">> >>]]]
      [] text = DocErrors ->
            [type |-> "dict", val |-> [status |-> "errors", errors |-> <<"e1", "e2">>]]
      [] text = DocErrorsOne ->
            [type |-> "dict", val |-> [status |-> "errors", errors |-> <<"e2">>]]
      [] text = DocErrorsBare -> [type |-> "dict", val |-> [status |-> "errors"]]
      [] text = DocBuiltA ->
            [type |-> "dict", val |-> [status |-> "built", files |-> FilesA]]
      [] text = DocBuiltB ->
            [type |-> "dict", val |-> [status |-> "built", files |-> FilesB]]
      [] text = DocBuiltBare -> [type |-> "dict", val |-> [status |-> "built"]]
      [] OTHER -> [type |-> "ValueError", val |-> <<>>]

\* dict.get(key, default)
Get(d, key, default) == IF key \in DOMAIN d THEN d[key] ELSE default

\* '{}'.format(x) of a status: None prints as None
Format(x) == IF x = None THEN "None" ELSE x

\* sep.join(seq), as the sequence of its pieces
RECURSIVE Join(_, _)
Join(sep, seq) ==
    IF Len(seq) = 0 THEN <<>>
    ELSE IF Len(seq) = 1 THEN <<seq[1]>>
    ELSE <<seq[1], sep>> \o Join(sep, Tail(seq))

\* os.path.sep
OsSep == "/"

\* str.rfind(ch): the last index of ch in s, 0 when there is none (Python
\* counts from 0 and answers -1)
RFind(s, ch) ==
    LET at == {i \in 1..Len(s) : s[i] = ch}
    IN IF at = {} THEN 0 ELSE CHOOSE i \in at : \A j \in at : j <= i

\* os.path.splitext(p)[1]: from the last dot, if it comes after the last
\* separator and after a character of the last component that is not a dot
SplitExt(p) ==
    LET sepIndex == RFind(p, OsSep)
        dotIndex == RFind(p, ".")
    IN IF dotIndex > sepIndex /\ \E i \in (sepIndex + 1)..(dotIndex - 1) : p[i] /= "."
       THEN SubSeq(p, dotIndex, Len(p))
       ELSE <<>>

\* str.endswith('/')
EndsWithSlash(s) == Len(s) > 0 /\ s[Len(s)] = "/"

ExtJs == <<".", "j", "s">>
ExtCss == <<".", "c", "s", "s">>

\* '/'.join(rel_path.split(os.path.sep)): every separator becomes a slash
RelUrl(rel_path) ==
    [i \in 1..Len(rel_path) |-> IF rel_path[i] = OsSep THEN "/" ELSE rel_path[i]]

ScriptTag(static_url, rel_url) ==
    <<"<script src=\"">> \o static_url \o rel_url \o <<"\"></script>">>

LinkTag(static_url, rel_url) ==
    <<"<link rel=\"stylesheet\" href=\"">> \o static_url \o rel_url \o <<"\">">>

\* (mutant) the slash is appended whatever the url ends with
NormAlwaysAppend(static_url) == static_url \o <<"/">>

\* the static url as WebpackManifestEntry.__init__ normalises it
NormStaticUrl(static_url) ==
    IF ~EndsWithSlash(static_url) THEN static_url \o <<"/">> ELSE static_url

\* (mutant) the loop takes the paths from the right
RECURSIVE EntryLoopFromRight(_, _, _)
EntryLoopFromRight(entry, rel_paths, static_url) ==
    IF Len(rel_paths) = 0 THEN entry
    ELSE LET rel_path == rel_paths[Len(rel_paths)]
             ext == SplitExt(rel_path)
             rel_url == RelUrl(rel_path)
             next == IF ext = ExtJs
                        THEN [entry EXCEPT !.js = @ \o ScriptTag(static_url, rel_url),
                                           !.rel_js = Append(@, rel_url)]
                     ELSE IF ext = ExtCss
                        THEN [entry EXCEPT !.css = @ \o LinkTag(static_url, rel_url),
                                           !.rel_css = Append(@, rel_url)]
                     ELSE entry
         IN EntryLoopFromRight(next, SubSeq(rel_paths, 1, Len(rel_paths) - 1),
                               static_url)

\* WebpackManifestEntry.__init__: the loop over rel_paths, from the left
RECURSIVE EntryLoop(_, _, _)
EntryLoop(entry, rel_paths, static_url) ==
    IF Len(rel_paths) = 0 THEN entry
    ELSE LET rel_path == Head(rel_paths)
             ext == SplitExt(rel_path)
             rel_url == RelUrl(rel_path)
             next == IF ext = ExtJs
                        THEN [entry EXCEPT !.js = @ \o ScriptTag(static_url, rel_url),
                                           !.rel_js = Append(@, rel_url)]
                     ELSE IF ext = ExtCss
                        THEN [entry EXCEPT !.css = @ \o LinkTag(static_url, rel_url),
                                           !.rel_css = Append(@, rel_url)]
                     ELSE entry
         IN EntryLoop(next, Tail(rel_paths), static_url)

WebpackManifestEntry(rel_paths, static_url) ==
    LET url == NormStaticUrl(static_url)
        e == EntryLoop([js |-> <<>>, rel_js |-> <<>>, css |-> <<>>, rel_css |-> <<>>],
                       rel_paths, url)
    IN [js |-> e.js, rel_js |-> e.rel_js, css |-> e.css, rel_css |-> e.rel_css,
        contents |-> rel_paths, static_url |-> url]

\* WebpackManifest.__init__: one attribute per entry of files
WebpackManifest(files, static_url) ==
    [entry \in DOMAIN files |-> WebpackManifestEntry(files[entry], static_url)]

\* ------------------------------------------------------------- the state

VARIABLES
    fs,              \* the manifest file, as the bundler left it
    now,             \* the wall clock (datetime.utcnow()), in ticks
    MANIFEST_CACHE,  \* path -> WebpackManifest
    pc,              \* where each caller's load is
    args,            \* the arguments of each caller's load
    frame,           \* the locals of load, build and the running read
    outcome,         \* what load returned or raised
    hist             \* what the running load has done so far (observation only)

vars == <<fs, now, MANIFEST_CACHE, pc, args, frame, outcome, hist>>

NoArgs == [path |-> AbsPath, static_url |-> <<>>, debug |-> FALSE,
           timeout |-> 0, read_retry |-> RetryNone]
NoFrame == [read_retry |-> RetryNone, rr |-> RetryNone, attempt |-> 1,
            ret |-> "build:119", data |-> EmptyDict, status |-> None,
            max_timeout |-> 0]
NoOutcome == [kind |-> "none", exc |-> None, msg |-> <<>>, value |-> EmptyDict]
\* seen: the statuses build has read; reads, opens: the calls of read and of
\* open; retry_sleeps, poll_sleeps: the sleeps of read and of the poll loop;
\* cached: the path was cached at the call; bad: the path has failed read's
\* checks from the call on; entered, checked: the clock at the entry of the
\* poll loop and at its last deadline test
NoHist == [seen |-> <<>>, reads |-> 0, opens |-> 0, retry_sleeps |-> 0,
           poll_sleeps |-> 0, cached |-> FALSE, bad |-> FALSE,
           entered |-> 0, checked |-> 0]

Init ==
    /\ fs \in FileStates
    /\ now = 0
    /\ MANIFEST_CACHE = EmptyDict
    /\ pc = [c \in Callers |-> "idle"]
    /\ args = [c \in Callers |-> NoArgs]
    /\ frame = [c \in Callers |-> NoFrame]
    /\ outcome = [c \in Callers |-> NoOutcome]
    /\ hist = [c \in Callers |-> NoHist]

\* ----------------------------------------------- the code's decisions

\* load, "if debug and read_retry is None: read_retry = 1"
DefaultRetry(debug, read_retry) ==
    IF debug /\ read_retry = RetryNone THEN DefaultReadRetry ELSE read_retry

\* (mutant) the cache is never consulted
UseBuildAlways(debug, path) == TRUE

\* load, "if debug or path not in MANIFEST_CACHE"
UseBuild(debug, path) == debug \/ path \notin DOMAIN MANIFEST_CACHE

\* (mutant) the manifest is stored under debug too
StoreAlways(debug) == TRUE

\* load, "if not debug: MANIFEST_CACHE[path] = manifest"
StoreInCache(debug) == ~debug

\* (mutant) the loop goes on until the status is "built"
KeepPollingUntilBuilt(status) == status /= BUILT_STATUS

\* build, "while status == BUILDING_STATUS"
KeepPolling(status) == status = BUILDING_STATUS

\* (mutant) the loop is not under "if debug:"
EnterLoopAnyMode(debug, status) == KeepPolling(status)

\* build, "if debug:" around the loop
EnterLoop(debug, status) == debug /\ KeepPolling(status)

\* (mutant) the deadline itself counts as passed
DeadlineReached(t, max_timeout) == t >= max_timeout

\* (mutant) the deadline is one poll interval late
DeadlineLate(t, max_timeout) == t > max_timeout + PollInterval

\* build, "if datetime.utcnow() > max_timeout"
DeadlinePassed(t, max_timeout) == t > max_timeout

\* (mutant) only None means no retry
ShouldRetryUnlessNone(read_retry) == read_retry /= RetryNone

\* read, "if not read_retry": None and 0 are falsy
ShouldRetry(read_retry) == read_retry /= RetryNone /\ read_retry /= 0

\* (mutant) the retry is made with the same read_retry
RetryArgSame(read_retry) == read_retry

\* read, "return read(path, 0)": the retry's own read_retry
RetryArg(read_retry) == 0

\* os.path.isfile(path): both paths name the one file
IsFile(path) == fs.kind = "file"

\* os.path.isabs(path)
IsAbs(path) == Len(path) > 0 /\ path[1] = "/"

Raise(exc, msg) == [kind |-> "raise", exc |-> exc, msg |-> msg, value |-> EmptyDict]
Returned(value) == [kind |-> "return", exc |-> None, msg |-> <<>>, value |-> value]

\* the messages the code formats
NotAFileMessage(path) ==
    <<"Path \"">> \o path \o <<"\" is not a file or does not exist">>
NotAbsMessage(path) ==
    <<"Path \"">> \o path \o <<"\" is not an absolute path to a file">>
TimeoutMessage(path) ==
    <<"Timed out reading the webpack manifest at \"">> \o path \o <<"\"">>
ErrorsMessage(errors) == <<"Webpack errors: \n\n">> \o Join("\n\n", errors)
StatusMessage(status) ==
    <<"Unknown webpack manifest status: \"", Format(status), "\"">>

\* (mutant) the path is not tested for being absolute
PathCheckFileOnly(path) ==
    IF ~IsFile(path) THEN Raise("WebpackManifestFileError", NotAFileMessage(path))
    ELSE NoOutcome

\* read, lines 182-186: the error the checks raise, or none
PathCheck(path) ==
    IF ~IsFile(path) THEN Raise("WebpackManifestFileError", NotAFileMessage(path))
    ELSE IF ~IsAbs(path) THEN Raise("WebpackManifestFileError", NotAbsMessage(path))
    ELSE NoOutcome

\* (mutant) the status is tested for "errors" only
BuildResultAnyStatus(data, status, static_url) ==
    IF status = ERRORS_STATUS
    THEN IF "errors" \in DOMAIN data
         THEN Raise("WebpackError", ErrorsMessage(data["errors"]))
         ELSE Raise("KeyError", <<"errors">>)
    ELSE IF "files" \in DOMAIN data
         THEN Returned(WebpackManifest(data["files"], static_url))
         ELSE Raise("KeyError", <<"files">>)

\* build, lines 134-144: the error raised, or the manifest returned
BuildResult(data, status, static_url) ==
    IF status = ERRORS_STATUS
    THEN IF "errors" \in DOMAIN data
         THEN Raise("WebpackError", ErrorsMessage(data["errors"]))
         ELSE Raise("KeyError", <<"errors">>)
    ELSE IF status /= BUILT_STATUS
    THEN Raise("WebpackManifestStatusError", StatusMessage(status))
    ELSE IF "files" \in DOMAIN data
         THEN Returned(WebpackManifest(data["files"], static_url))
         ELSE Raise("KeyError", <<"files">>)

\* ------------------------------------------------------------ the actions

\* the path is relative, or the file f is absent or not a regular file
BadPath(f, path) == f.kind /= "file" \/ Len(path) = 0 \/ path[1] /= "/"

\* the timeout argument: build reads it only under debug, so one value
\* stands for all of them otherwise
Timeouts(debug) == IF debug THEN 0..MaxTimeout ELSE {MaxTimeout}

\* the single-threaded program: every call comes from the main thread
Sequential(c) == c = MainThread

\* load(path, static_url, debug, timeout, read_retry), lines 102-108 and 115:
\* the cached manifest, or the call of build and its first read; static_url
\* is any of urls
LoadWith(c, urls) ==
    /\ pc[c] = "idle"
    /\ now <= MaxClock
    /\ \E path \in Paths, static_url \in urls, debug \in BOOLEAN,
          read_retry \in ReadRetries :
       \E timeout \in Timeouts(debug) :
        LET retry == DefaultRetry(debug, read_retry) IN
        /\ args' = [args EXCEPT ![c] =
                        [path |-> path, static_url |-> static_url, debug |-> debug,
                         timeout |-> timeout, read_retry |-> read_retry]]
        /\ hist' = [hist EXCEPT ![c] =
                        [NoHist EXCEPT !.cached = path \in DOMAIN MANIFEST_CACHE,
                                       !.bad = BadPath(fs, path)]]
        /\ IF UseBuild(debug, path)
           THEN /\ pc' = [pc EXCEPT ![c] = "check"]
                /\ frame' = [frame EXCEPT ![c] =
                                [NoFrame EXCEPT !.read_retry = retry, !.rr = retry]]
                /\ outcome' = [outcome EXCEPT ![c] = NoOutcome]
           ELSE /\ pc' = [pc EXCEPT ![c] = "done"]
                /\ frame' = [frame EXCEPT ![c] = NoFrame]
                /\ outcome' = [outcome EXCEPT ![c] = Returned(MANIFEST_CACHE[path])]
    /\ UNCHANGED <<fs, now, MANIFEST_CACHE>>

\* read, lines 182-186: isfile and isabs
ReadCheck(c) ==
    /\ pc[c] = "check"
    /\ LET err == PathCheck(args[c].path) IN
        /\ hist' = [hist EXCEPT ![c].reads = @ + 1]
        /\ IF err.kind = "raise"
           THEN /\ pc' = [pc EXCEPT ![c] = "done"]
                /\ outcome' = [outcome EXCEPT ![c] = err]
           ELSE /\ pc' = [pc EXCEPT ![c] = "open"]
                /\ UNCHANGED outcome
    /\ UNCHANGED <<fs, now, MANIFEST_CACHE, args, frame>>

\* build, lines 120-125 and 132: the status of what read returned, the
\* deadline on the first pass, and the test of the while loop
AfterRead(c, parsed) ==
    IF parsed.type /= "dict"
    THEN /\ pc' = [pc EXCEPT ![c] = "done"]
         /\ outcome' = [outcome EXCEPT ![c] = Raise("AttributeError", <<"get">>)]
         /\ UNCHANGED <<frame, now>>
         /\ hist' = [hist EXCEPT ![c].opens = @ + 1]
    ELSE LET status == Get(parsed.val, "status", None)
             first == frame[c].ret = "build:119"
         IN /\ frame' = [frame EXCEPT
                            ![c].data = parsed.val,
                            ![c].status = status,
                            ![c].max_timeout =
                                IF first /\ args[c].debug THEN now + args[c].timeout
                                ELSE @]
            /\ hist' = [hist EXCEPT ![c].opens = @ + 1,
                                    ![c].seen = Append(@, status),
                                    ![c].entered = IF first THEN now ELSE @]
            /\ pc' = [pc EXCEPT ![c] =
                         IF EnterLoop(args[c].debug, status) THEN "poll"
                         ELSE "finish"]
            /\ UNCHANGED <<outcome, now>>

\* read, lines 188-204: open, read, json.loads, and the retry after a sleep
ReadOpen(c) ==
    /\ pc[c] = "open"
    /\ IF fs.kind /= "file"
       THEN \* the file went away after the checks: open raises
            /\ pc' = [pc EXCEPT ![c] = "done"]
            /\ outcome' = [outcome EXCEPT ![c] = Raise("IOError", args[c].path)]
            /\ UNCHANGED <<frame, hist, now>>
       ELSE LET parsed == JsonLoads(fs.text) IN
            IF parsed.type = "ValueError"
            THEN IF ~ShouldRetry(frame[c].rr)
                 THEN /\ pc' = [pc EXCEPT ![c] = "done"]
                      /\ outcome' = [outcome EXCEPT ![c] = Raise("ValueError", <<>>)]
                      /\ hist' = [hist EXCEPT ![c].opens = @ + 1]
                      /\ UNCHANGED <<frame, now>>
                 ELSE \E jitter \in 0..MaxJitter :
                      /\ now' = now + frame[c].rr + jitter
                      /\ frame' = [frame EXCEPT ![c].rr = RetryArg(@),
                                                ![c].attempt = @ + 1]
                      /\ hist' = [hist EXCEPT ![c].opens = @ + 1,
                                              ![c].retry_sleeps = @ + 1]
                      /\ pc' = [pc EXCEPT ![c] = "check"]
                      /\ UNCHANGED outcome
            ELSE AfterRead(c, parsed)
    /\ UNCHANGED <<fs, MANIFEST_CACHE, args>>

\* build, lines 126-131: sleep, the deadline, and the call of the next read
Poll(c) ==
    /\ pc[c] = "poll"
    /\ \E jitter \in 0..MaxJitter :
        /\ now' = now + PollInterval + jitter
        /\ hist' = [hist EXCEPT ![c].poll_sleeps = @ + 1, ![c].checked = now']
        /\ IF DeadlinePassed(now', frame[c].max_timeout)
           THEN /\ pc' = [pc EXCEPT ![c] = "done"]
                /\ outcome' = [outcome EXCEPT ![c] =
                        Raise("WebpackManifestBuildingStatusTimeout",
                              TimeoutMessage(args[c].path))]
                /\ UNCHANGED frame
           ELSE /\ pc' = [pc EXCEPT ![c] = "check"]
                /\ frame' = [frame EXCEPT ![c].rr = frame[c].read_retry,
                                          ![c].attempt = 1,
                                          ![c].ret = "build:131"]
                /\ UNCHANGED outcome
    /\ UNCHANGED <<fs, MANIFEST_CACHE, args>>

\* (mutant) an entry that is already there is kept (dict.setdefault)
FinishKeepFirst(c) ==
    /\ pc[c] = "finish"
    /\ LET res == BuildResult(frame[c].data, frame[c].status, args[c].static_url) IN
        /\ outcome' = [outcome EXCEPT ![c] = res]
        /\ MANIFEST_CACHE' =
              IF /\ res.kind = "return"
                 /\ StoreInCache(args[c].debug)
                 /\ args[c].path \notin DOMAIN MANIFEST_CACHE
              THEN [p \in DOMAIN MANIFEST_CACHE \cup {args[c].path} |->
                        IF p = args[c].path THEN res.value ELSE MANIFEST_CACHE[p]]
              ELSE MANIFEST_CACHE
    /\ pc' = [pc EXCEPT ![c] = "done"]
    /\ UNCHANGED <<fs, now, args, frame, hist>>

\* (mutant) the cache is written before build has raised or returned
FinishCacheAny(c) ==
    /\ pc[c] = "finish"
    /\ LET res == BuildResult(frame[c].data, frame[c].status, args[c].static_url) IN
        /\ outcome' = [outcome EXCEPT ![c] = res]
        /\ MANIFEST_CACHE' =
              IF StoreInCache(args[c].debug)
              THEN [p \in DOMAIN MANIFEST_CACHE \cup {args[c].path} |->
                        IF p = args[c].path THEN res.value ELSE MANIFEST_CACHE[p]]
              ELSE MANIFEST_CACHE
    /\ pc' = [pc EXCEPT ![c] = "done"]
    /\ UNCHANGED <<fs, now, args, frame, hist>>

\* build, lines 134-144, and load, lines 110-113
Finish(c) ==
    /\ pc[c] = "finish"
    /\ LET res == BuildResult(frame[c].data, frame[c].status, args[c].static_url) IN
        /\ outcome' = [outcome EXCEPT ![c] = res]
        /\ MANIFEST_CACHE' =
              IF res.kind = "return" /\ StoreInCache(args[c].debug)
              THEN [p \in DOMAIN MANIFEST_CACHE \cup {args[c].path} |->
                        IF p = args[c].path THEN res.value ELSE MANIFEST_CACHE[p]]
              ELSE MANIFEST_CACHE
    /\ pc' = [pc EXCEPT ![c] = "done"]
    /\ UNCHANGED <<fs, now, args, frame, hist>>

\* the caller takes what load returned or raised
Return(c) ==
    /\ pc[c] = "done"
    /\ pc' = [pc EXCEPT ![c] = "idle"]
    /\ args' = [args EXCEPT ![c] = NoArgs]
    /\ frame' = [frame EXCEPT ![c] = NoFrame]
    /\ outcome' = [outcome EXCEPT ![c] = NoOutcome]
    /\ hist' = [hist EXCEPT ![c] = NoHist]
    /\ UNCHANGED <<fs, now, MANIFEST_CACHE>>

\* the bundler (another process) rewrites, removes or replaces the file
BundlerWrite ==
    /\ \E f \in FileStates \ {fs} : fs' = f
    /\ hist' = [c \in Callers |->
                   [hist[c] EXCEPT !.bad = @ /\ BadPath(fs', args[c].path)]]
    /\ UNCHANGED <<now, MANIFEST_CACHE, pc, args, frame, outcome>>

Load(c) == LoadWith(c, StaticUrls)

SeqLoad(c) == Sequential(c) /\ Load(c)

Next ==
    \/ \E c \in Callers : SeqLoad(c)
    \/ \E c \in Callers : ReadCheck(c)
    \/ \E c \in Callers : ReadOpen(c)
    \/ \E c \in Callers : Poll(c)
    \/ \E c \in Callers : Finish(c)
    \/ \E c \in Callers : Return(c)
    \/ BundlerWrite

Spec == Init /\ [][Next]_vars

\* a step of a load that is under way: the calling thread is blocked in it
\* and runs (a sleep returns, a read ends)
Step(c) == ReadCheck(c) \/ ReadOpen(c) \/ Poll(c) \/ Finish(c)

\* The debug loads of one manifest while the bundler is at work on it: the
\* file is there and holds a manifest in progress, a finished one, or nothing
\* yet.  The thread in load keeps running.
PollDocs == {DocBuilding, DocEmpty, DocBuiltA}
PollFiles == {[kind |-> "file", text |-> d] : d \in PollDocs}

PollInit == Init /\ fs \in PollFiles

PollLoad(c) == SeqLoad(c) /\ args'[c].debug /\ args'[c].path = AbsPath

PollWrite == BundlerWrite /\ fs' \in PollFiles

PollNext ==
    \/ \E c \in Callers : PollLoad(c)
    \/ \E c \in Callers : ReadCheck(c)
    \/ \E c \in Callers : ReadOpen(c)
    \/ \E c \in Callers : Poll(c)
    \/ \E c \in Callers : Finish(c)
    \/ \E c \in Callers : Return(c)
    \/ PollWrite

PollSpec == PollInit /\ [][PollNext]_vars /\ \A c \in Callers : WF_vars(Step(c))

\* Any load of the single-threaded program, with or without debug, while
\* the bundler does what it likes to the file: removes it, leaves it empty or
\* half written, or writes a manifest that is building, built or in error.
\* The calling thread keeps running.
TermFiles == {[kind |-> "missing", text |-> DocEmpty]}
             \cup {[kind |-> "file", text |-> d] :
                      d \in {DocEmpty, DocBuilding, DocBuiltA}}

TermInit == Init /\ fs \in TermFiles

\* static_url plays no part in how long a load runs: one value
TermLoad(c) == SeqLoad(c) /\ args'[c].static_url = <<"/", "s">>

TermWrite == BundlerWrite /\ fs' \in TermFiles

TermNext ==
    \/ \E c \in Callers : TermLoad(c)
    \/ \E c \in Callers : ReadCheck(c)
    \/ \E c \in Callers : ReadOpen(c)
    \/ \E c \in Callers : Poll(c)
    \/ \E c \in Callers : Finish(c)
    \/ \E c \in Callers : Return(c)
    \/ TermWrite

TermSpec == TermInit /\ [][TermNext]_vars /\ WF_vars(Step(MainThread))

\* The non-debug loads of the single-threaded program with static urls that
\* differ after normalisation, so that the manifest built with one is not the
\* manifest built with the other.
KeyStaticUrls == {<<"/", "s">>, <<"/", "t", "/">>}

KeyLoad(c) == Sequential(c) /\ LoadWith(c, KeyStaticUrls) /\ ~args'[c].debug

KeyNext ==
    \/ \E c \in Callers : KeyLoad(c)
    \/ \E c \in Callers : ReadCheck(c)
    \/ \E c \in Callers : ReadOpen(c)
    \/ \E c \in Callers : Finish(c)
    \/ \E c \in Callers : Return(c)
    \/ BundlerWrite

KeySpec == Init /\ [][KeyNext]_vars

\* Two threads of the process call load without debug on the one absolute
\* path, in any interleaving of their steps, while the bundler rewrites the
\* file.  There is no lock in the code: each line of load, build and read is
\* a step of its own.
ConcDocs == {DocEmpty, DocErrors, DocBuiltA, DocBuiltB}
ConcFiles == {[kind |-> "file", text |-> d] : d \in ConcDocs}

ConcInit == Init /\ fs \in ConcFiles

ConcLoad(c) == Load(c) /\ ~args'[c].debug /\ args'[c].path = AbsPath

ConcWrite == BundlerWrite /\ fs' \in ConcFiles

ConcNext ==
    \/ \E c \in Callers : ConcLoad(c)
    \/ \E c \in Callers : ReadCheck(c)
    \/ \E c \in Callers : ReadOpen(c)
    \/ \E c \in Callers : Finish(c)
    \/ \E c \in Callers : Return(c)
    \/ ConcWrite

ConcSpec == ConcInit /\ [][ConcNext]_vars

\* The construction of the manifest on its own: build has read a manifest
\* with status "built" whose files are any of EntryFiles, for a load with any
\* of EntryStaticUrls, and is about to construct the result (the text of the
\* file is not looked at again).
EntryPaths == {<<"a", "/", "b", ".", "j", "s">>,
               <<"c", ".", "c", "s", "s">>,
               <<"d", ".", "t", "x", "t">>,
               <<".", "j", "s">>,
               <<"e", ".", "m", ".", "j", "s">>,
               <<"h", ".", "j", "s", "/", "i">>}

EntryPathLists == UNION {[1..n -> EntryPaths] : n \in 0..MaxPaths}

EntryFiles == {[main |-> l] : l \in EntryPathLists}
              \cup {[main |-> l, vendor |-> <<p>>] :
                        l \in EntryPathLists, p \in EntryPaths}

EntryStaticUrls == StaticUrls \cup {<<>>, <<"/", "s", "/", "/">>}

EntryInit ==
    /\ fs = [kind |-> "file", text |-> DocBuiltA]
    /\ now = 0
    /\ MANIFEST_CACHE = EmptyDict
    /\ pc = [c \in Callers |-> IF c = MainThread THEN "finish" ELSE "idle"]
    /\ \E static_url \in EntryStaticUrls, debug \in BOOLEAN :
          args = [c \in Callers |->
                    IF c = MainThread
                    THEN [NoArgs EXCEPT !.static_url = static_url, !.debug = debug,
                                        !.timeout = MaxTimeout]
                    ELSE NoArgs]
    /\ \E files \in EntryFiles :
          frame = [c \in Callers |->
                     IF c = MainThread
                     THEN [NoFrame EXCEPT
                              !.data = [status |-> BUILT_STATUS, files |-> files],
                              !.status = BUILT_STATUS]
                     ELSE NoFrame]
    /\ outcome = [c \in Callers |-> NoOutcome]
    /\ hist = [c \in Callers |->
                 IF c = MainThread
                 THEN [NoHist EXCEPT !.seen = <<BUILT_STATUS>>, !.reads = 1,
                                     !.opens = 1]
                 ELSE NoHist]

EntryNext ==
    \/ \E c \in Callers : Finish(c)
    \/ \E c \in Callers : Return(c)

EntrySpec == EntryInit /\ [][EntryNext]_vars

\* ------------------------------------------------------------- the claims

Last(seq) == seq[Len(seq)]

\* a non-debug load of a path that was cached when it was called
CacheHit(c) == pc[c] = "done" /\ ~args[c].debug /\ hist[c].cached

C1_CachedLoad ==
    \A c \in Callers :
        CacheHit(c) =>
            /\ outcome[c] = Returned(MANIFEST_CACHE[args[c].path])
            /\ hist[c].reads = 0
            /\ hist[c].opens = 0
            /\ hist[c].retry_sleeps = 0

C1_CacheStep ==
    \A p \in Paths :
        /\ p \in DOMAIN MANIFEST_CACHE =>
              p \in DOMAIN MANIFEST_CACHE' /\ MANIFEST_CACHE'[p] = MANIFEST_CACHE[p]
        /\ p \notin DOMAIN MANIFEST_CACHE /\ p \in DOMAIN MANIFEST_CACHE' =>
              \E c \in Callers :
                  /\ pc'[c] = "done"
                  /\ args[c].path = p
                  /\ ~args[c].debug
                  /\ outcome'[c] = Returned(MANIFEST_CACHE'[p])

\* C1: in the single-threaded program, a cache entry is set by a successful
\* non-debug load to the manifest that load returns and is never removed or
\* replaced afterwards, and every later non-debug load of the path returns
\* that entry without any call of read, whatever the file holds by then.
C1_FirstResultServed == []C1_CachedLoad /\ [][C1_CacheStep]_vars

\* a cached manifest of the first document is returned while the file holds
\* the second, or is gone
C1_Witness ==
    \E c \in Callers :
        /\ CacheHit(c)
        /\ outcome[c].value = WebpackManifest(FilesA, args[c].static_url)
        /\ fs \in {[kind |-> "file", text |-> DocBuiltB],
                   [kind |-> "missing", text |-> DocEmpty]}

\* the manifests of the documents whose status is "built"
BuiltManifests ==
    {WebpackManifest(JsonLoads(d).val["files"], u) :
        d \in {x \in Docs : /\ JsonLoads(x).type = "dict"
                            /\ Get(JsonLoads(x).val, "status", None) = BUILT_STATUS
                            /\ "files" \in DOMAIN JsonLoads(x).val},
        u \in StaticUrls}

\* C2: every manifest that load has returned or that the cache holds is the
\* manifest of a document whose status is "built"; a load that went through
\* build returns one only when the last status it read was "built", and
\* raises for any other last status.
C2_OnlyFromBuilt ==
    /\ \A p \in DOMAIN MANIFEST_CACHE : MANIFEST_CACHE[p] \in BuiltManifests
    /\ \A c \in Callers :
        pc[c] = "done" =>
            /\ outcome[c].kind \in {"return", "raise"}
            /\ outcome[c].kind = "return" => outcome[c].value \in BuiltManifests
            /\ outcome[c].kind = "return" /\ hist[c].reads > 0 =>
                  /\ hist[c].seen /= <<>>
                  /\ Last(hist[c].seen) = BUILT_STATUS
                  /\ frame[c].status = BUILT_STATUS
            /\ hist[c].seen /= <<>> /\ Last(hist[c].seen) /= BUILT_STATUS =>
                  outcome[c].kind = "raise"

\* a debug load has polled and returned the manifest of its last read
C2_Witness ==
    \E c \in Callers :
        /\ pc[c] = "done"
        /\ outcome[c].kind = "return"
        /\ Len(hist[c].seen) >= 2
        /\ hist[c].seen[1] = BUILDING_STATUS
        /\ Last(hist[c].seen) = BUILT_STATUS

\* a debug load whose first read was "building" and whose second was "built"
BuildingThenBuilt(c) ==
    /\ pc[c] = "done"
    /\ args[c].debug
    /\ Len(hist[c].seen) >= 2
    /\ hist[c].seen[1] = BUILDING_STATUS
    /\ hist[c].seen[2] = BUILT_STATUS

\* C3 as stated: with debug, a first read of "building" and a second read of
\* "built" (of a manifest with its files), load returns the manifest of the
\* second read before timeout has elapsed since the loop was entered.
C3_Original ==
    \A c \in Callers :
        BuildingThenBuilt(c) /\ "files" \in DOMAIN frame[c].data =>
            /\ outcome[c] =
                  Returned(WebpackManifest(frame[c].data["files"], args[c].static_url))
            /\ now - hist[c].entered <= args[c].timeout

\* C3 amended: with debug and a first read of "building", the second read is
\* made only if the deadline test after the first sleep passes (the time since
\* the loop was entered is at most timeout); otherwise load raises the timeout
\* without a second read.  When the second read returns "built", the loop ends
\* there and load returns the manifest of that read (KeyError if it has no
\* files), at whatever time that read ended.
C3_BuiltOnSecondRead ==
    \A c \in Callers :
        /\ BuildingThenBuilt(c) =>
              /\ Len(hist[c].seen) = 2
              /\ hist[c].poll_sleeps = 1
              /\ hist[c].checked - hist[c].entered <= args[c].timeout
              /\ outcome[c] =
                    IF "files" \in DOMAIN frame[c].data
                    THEN Returned(WebpackManifest(frame[c].data["files"],
                                                  args[c].static_url))
                    ELSE Raise("KeyError", <<"files">>)
        /\ ( /\ pc[c] = "done"
             /\ args[c].debug
             /\ hist[c].seen /= <<>>
             /\ hist[c].seen[1] = BUILDING_STATUS
             /\ hist[c].poll_sleeps = 1
             /\ hist[c].checked - hist[c].entered > args[c].timeout ) =>
              /\ outcome[c].exc = "WebpackManifestBuildingStatusTimeout"
              /\ Len(hist[c].seen) = 1

\* the manifest of the second read is returned after timeout has elapsed
C3_Witness ==
    \E c \in Callers :
        /\ BuildingThenBuilt(c)
        /\ outcome[c].kind = "return"
        /\ now - hist[c].entered > args[c].timeout

TimedOut(c) ==
    pc[c] = "done" /\ outcome[c].exc = "WebpackManifestBuildingStatusTimeout"

\* every status the load has read is "building"
OnlyBuilding(c) ==
    /\ hist[c].seen /= <<>>
    /\ \A i \in 1..Len(hist[c].seen) : hist[c].seen[i] = BUILDING_STATUS

\* the load ended in a call of read that raised
ReadFailed(c) ==
    /\ pc[c] = "done"
    /\ outcome[c].exc \in {"WebpackManifestFileError", "ValueError", "IOError",
                           "AttributeError"}

C4_Deadline ==
    \A c \in Callers :
        /\ TimedOut(c) =>
              /\ args[c].debug
              /\ OnlyBuilding(c)
              /\ hist[c].poll_sleeps >= 1
              /\ hist[c].checked - hist[c].entered > args[c].timeout
        \* a sleep lasts a poll interval at least, so the sleeps before the
        \* last one fit in timeout
        /\ hist[c].poll_sleeps >= 1 =>
              (hist[c].poll_sleeps - 1) * PollInterval <= args[c].timeout
        \* the calls of read by build: one before the loop, and one after each
        \* deadline test that passed
        /\ hist[c].reads - hist[c].retry_sleeps <= hist[c].poll_sleeps + 1
        /\ Len(hist[c].seen) > 1 =>
              /\ hist[c].poll_sleeps >= Len(hist[c].seen) - 1
              /\ TimedOut(c) => hist[c].poll_sleeps = Len(hist[c].seen)
        /\ pc[c] = "done" /\ args[c].debug /\ OnlyBuilding(c) /\ ~ReadFailed(c) =>
              TimedOut(c)

C4_Ends ==
    \A c \in Callers :
        (args[c].debug /\ pc[c] = "poll") ~>
            (pc[c] = "done" /\ (TimedOut(c) \/ ReadFailed(c) \/ ~OnlyBuilding(c)))

\* C4: a debug load that is in the poll loop eventually ends, and with the
\* build-timeout error if every read returned "building" (and none raised);
\* that error is raised only under debug, only by the deadline test of a poll
\* iteration at which the time since the loop was entered exceeds timeout;
\* every read of the loop comes after such a test, and the loop makes no
\* more iterations than timeout allows, plus one.
C4_TimeoutWhenStuck == []C4_Deadline /\ C4_Ends

\* a load has polled more than once and then timed out
C4_Witness ==
    \E c \in Callers :
        /\ TimedOut(c)
        /\ hist[c].poll_sleeps >= 2
        /\ Len(hist[c].seen) >= 2

\* C5: a non-debug load whose read returns status "building" raises the
\* unknown-status error naming "building" after that one status read: it
\* never sleeps in the poll loop, reads no second status, opens the file once
\* (twice when the first content did not parse and read retried), and leaves
\* the path uncached.
C5_NoPollingWithoutDebug ==
    \A c \in Callers :
        ~args[c].debug =>
            /\ hist[c].poll_sleeps = 0
            /\ Len(hist[c].seen) <= 1
            /\ pc[c] /= "poll"
            /\ ( /\ pc[c] = "done"
                 /\ hist[c].seen /= <<>>
                 /\ hist[c].seen[1] = BUILDING_STATUS ) =>
                  /\ outcome[c].kind = "raise"
                  /\ outcome[c].exc = "WebpackManifestStatusError"
                  /\ outcome[c].msg[2] = "building"
                  /\ hist[c].opens = 1 + hist[c].retry_sleeps
                  /\ hist[c].reads = hist[c].opens
                  /\ hist[c].retry_sleeps <= 1
                  /\ args[c].path \notin DOMAIN MANIFEST_CACHE

\* a non-debug load, with read_retry set, has read "building" at once
C5_Witness ==
    \E c \in Callers :
        /\ pc[c] = "done"
        /\ ~args[c].debug
        /\ args[c].read_retry = 2
        /\ hist[c].seen = <<BUILDING_STATUS>>
        /\ hist[c].opens = 1
        /\ outcome[c].exc = "WebpackManifestStatusError"

\* the delay before the retry that the arguments of the load ask for: the
\* read_retry given, ten ticks (1 s) when it is None under debug, else none
RetryDelay(c) ==
    IF args[c].read_retry /= RetryNone THEN args[c].read_retry
    ELSE IF args[c].debug THEN 10
    ELSE 0

C6_Attempts ==
    \A c \in Callers :
        /\ frame[c].attempt \in {1, 2}
        /\ frame[c].attempt = 2 => RetryDelay(c) > 0 /\ hist[c].retry_sleeps >= 1
        /\ hist[c].reads <= 2 * (hist[c].poll_sleeps + 1)
        /\ hist[c].retry_sleeps <= hist[c].poll_sleeps + 1

\* what the step of read that opens and parses the file does
C6_ParseStep ==
    \A c \in Callers :
        pc[c] = "open" /\ pc'[c] /= "open" /\ fs.kind = "file" =>
            IF JsonLoads(fs.text).type = "ValueError"
            THEN IF frame[c].attempt = 1 /\ RetryDelay(c) > 0
                 THEN /\ pc'[c] = "check"
                      /\ frame'[c].attempt = 2
                      /\ now' >= now + RetryDelay(c)
                      /\ hist'[c].retry_sleeps = hist[c].retry_sleeps + 1
                 ELSE /\ pc'[c] = "done"
                      /\ outcome'[c].exc = "ValueError"
                      /\ now' = now
                      /\ hist'[c].retry_sleeps = hist[c].retry_sleeps
            ELSE /\ pc'[c] /= "check"
                 /\ now' = now
                 /\ hist'[c].retry_sleeps = hist[c].retry_sleeps
                 /\ JsonLoads(fs.text).type = "dict" =>
                       /\ Len(hist'[c].seen) = Len(hist[c].seen) + 1
                       /\ frame'[c].data = JsonLoads(fs.text).val

\* C6: when the content does not parse, read sleeps read_retry (at least)
\* and makes one more attempt if read_retry is set and this is the first
\* attempt, and raises the parse error at once, without a sleep, otherwise; an
\* attempt that parses returns its data.  A call of read makes at most two
\* attempts.  The delay is the read_retry given, 1 s when it is None under
\* debug, and none when it is None without debug.
C6_OneRetry == []C6_Attempts /\ [][C6_ParseStep]_vars

\* a non-debug load with read_retry set has returned a manifest from the
\* second attempt of its read
C6_Witness ==
    \E c \in Callers :
        /\ pc[c] = "done"
        /\ ~args[c].debug
        /\ hist[c].retry_sleeps = 1
        /\ frame[c].attempt = 2
        /\ outcome[c].kind = "return"

\* a finished load whose path was relative, or not an existing regular file,
\* from the call to the end
BadPathLoad(c) == pc[c] = "done" /\ hist[c].bad

NoFileTouched(c) ==
    /\ outcome[c].kind = "raise"
    /\ outcome[c].exc = "WebpackManifestFileError"
    /\ hist[c].opens = 0
    /\ hist[c].retry_sleeps = 0

\* C7 as stated: every load of such a path fails with the file-access error
\* without opening the file and without a retry sleep
C7_Original == \A c \in Callers : BadPathLoad(c) => NoFileTouched(c)

C7_BadPath ==
    \A c \in Callers :
        BadPathLoad(c) /\ ~CacheHit(c) =>
            /\ NoFileTouched(c)
            /\ hist[c].reads = 1
            /\ hist[c].poll_sleeps = 0
            /\ hist[c].seen = <<>>

\* every attempt of read starts with the checks: the file is opened only from
\* the checks, on an absolute path to a regular file, and the checks of a bad
\* path end the load at once
C7_ChecksFirst ==
    \A c \in Callers :
        /\ pc'[c] = "open" /\ pc[c] /= "open" =>
              /\ pc[c] = "check"
              /\ fs.kind = "file"
              /\ args[c].path = AbsPath
        /\ pc[c] = "check" /\ pc'[c] /= "check"
              /\ (fs.kind /= "file" \/ args[c].path /= AbsPath) =>
              /\ pc'[c] = "done"
              /\ outcome'[c].exc = "WebpackManifestFileError"
              /\ now' = now
              /\ hist'[c].opens = hist[c].opens
              /\ hist'[c].retry_sleeps = hist[c].retry_sleeps

\* C7: a load of a path that is relative, does not exist or is not a regular
\* file, unless it is a non-debug load served from the cache, fails with the
\* file-access error after one check, without opening or parsing the file and
\* without any sleep; the checks run before every attempt of read.
C7_FileErrorUncached == []C7_BadPath /\ [][C7_ChecksFirst]_vars

\* a load with read_retry set of a path that is not a file has failed
C7_Witness ==
    \E c \in Callers :
        /\ BadPathLoad(c)
        /\ ~CacheHit(c)
        /\ args[c].read_retry = 2
        /\ fs.kind /= "file"
        /\ NoFileTouched(c)

Taxonomy ==
    {"WebpackManifestFileError", "ValueError",
     "WebpackManifestBuildingStatusTimeout", "WebpackError",
     "WebpackManifestStatusError"}

\* C8 as stated: a load that has ended has returned a manifest or raised one
\* of the five error kinds (file-access, parse, build-timeout, build-errors,
\* unknown-status), whatever the file held.
C8_ResultOrTaxonomy ==
    \A c \in Callers :
        pc[c] = "done" =>
            \/ outcome[c].kind = "return" /\ outcome[c].exc = None
            \/ outcome[c].kind = "raise" /\ outcome[c].exc \in Taxonomy

\* a load that has ended after a read whose status ended the reads
FinalStatus(c, status) ==
    /\ pc[c] = "done"
    /\ hist[c].seen /= <<>>
    /\ Last(hist[c].seen) = status

\* C9 as stated: a load whose final status is missing or is none of the three
\* recognized values, or is "built" in a manifest without `files`, raises the
\* unknown-status error naming that status.
C9_UnknownStatus ==
    \A c \in Callers : \A status \in {None, "idle", BUILT_STATUS} :
        /\ FinalStatus(c, status)
        /\ status = BUILT_STATUS => "files" \notin DOMAIN frame[c].data
        => /\ outcome[c].kind = "raise"
           /\ outcome[c].exc = "WebpackManifestStatusError"
           /\ Len(outcome[c].msg) = 3
           /\ outcome[c].msg[2] = (IF status = None THEN "None" ELSE status)

\* the message is the prefix followed by the errors in order, a blank line
\* between each two
JoinedErrors(msg, errors) ==
    /\ Len(msg) = (IF errors = <<>> THEN 1 ELSE 2 * Len(errors))
    /\ msg[1] = "Webpack errors: \n\n"
    /\ \A i \in 1..Len(errors) :
          /\ msg[2 * i] = errors[i]
          /\ i < Len(errors) => msg[2 * i + 1] = "\n\n"

\* C10 as stated: a load whose final status is "errors" raises one
\* build-errors error whose message joins the manifest's errors in order with
\* a blank line between them, and returns no result.
C10_ErrorsRaised ==
    \A c \in Callers :
        FinalStatus(c, ERRORS_STATUS) =>
            /\ outcome[c].kind = "raise"
            /\ outcome[c].exc = "WebpackError"
            /\ outcome[c].value = EmptyDict
            /\ "errors" \in DOMAIN frame[c].data =>
                  JoinedErrors(outcome[c].msg, frame[c].data["errors"])

\* the part of C10 that holds: when the manifest lists its errors
C10_WhenErrorsListed ==
    \A c \in Callers :
        FinalStatus(c, ERRORS_STATUS) /\ "errors" \in DOMAIN frame[c].data =>
            /\ outcome[c].kind = "raise"
            /\ outcome[c].exc = "WebpackError"
            /\ outcome[c].value = EmptyDict
            /\ JoinedErrors(outcome[c].msg, frame[c].data["errors"])

\* the part of C9 that holds: a status that is not recognized, or is missing
C9_WhenNotBuilt ==
    \A c \in Callers : \A status \in {None, "idle"} :
        FinalStatus(c, status) =>
            /\ outcome[c].exc = "WebpackManifestStatusError"
            /\ outcome[c].msg[2] = (IF status = None THEN "None" ELSE status)

\* the subsequence of the paths whose extension is ext
Picked(rel_paths, ext) == SelectSeq(rel_paths, LAMBDA p : SplitExt(p) = ext)

RECURSIVE Flatten(_)
Flatten(seqs) == IF seqs = <<>> THEN <<>> ELSE Head(seqs) \o Flatten(Tail(seqs))

\* the tags of the urls, one after the other with nothing between them
Tags(open, url, rels, close) ==
    Flatten([i \in 1..Len(rels) |-> <<open>> \o url \o rels[i] \o <<close>>])

\* a load that has returned the manifest it has built
Built(c) == pc[c] = "done" /\ outcome[c].kind = "return" /\ ~CacheHit(c)

\* C11: the manifest built from a "built" manifest has one entry per key of
\* files; rel_js and rel_css of an entry are the paths of the entry with
\* extension .js and .css, in their order; js and css are the script and link
\* tags of these, static url then relative url, in the same order and with
\* nothing between them; the other paths appear in none of the four.
C11_EntryPerKey ==
    \A c \in Callers :
        Built(c) =>
            LET files == frame[c].data["files"]
                m == outcome[c].value
            IN /\ DOMAIN m = DOMAIN files
               /\ \A k \in DOMAIN files :
                     /\ m[k].contents = files[k]
                     /\ m[k].rel_js = Picked(files[k], ExtJs)
                     /\ m[k].rel_css = Picked(files[k], ExtCss)
                     /\ m[k].js = Tags("<script src=\"", m[k].static_url,
                                       m[k].rel_js, "\"></script>")
                     /\ m[k].css = Tags("<link rel=\"stylesheet\" href=\"",
                                        m[k].static_url, m[k].rel_css, "\">")

\* an entry built from two .js paths with a path of another extension
\* between them, and a second entry
C11_Witness ==
    \E c \in Callers :
        /\ Built(c)
        /\ DOMAIN outcome[c].value = {"main", "vendor"}
        /\ frame[c].data["files"]["main"] =
              << <<"a", "/", "b", ".", "j", "s">>, <<"d", ".", "t", "x", "t">> >>
        /\ Len(outcome[c].value["main"].rel_js) = 1
        /\ outcome[c].value["main"].rel_css = <<>>

OneTrailingSlash(url) ==
    /\ EndsWithSlash(url)
    /\ Len(url) >= 2 => url[Len(url) - 1] /= "/"

\* C12 as stated: the static url of every entry ends with exactly one slash
C12_Original ==
    \A c \in Callers :
        Built(c) =>
            \A k \in DOMAIN outcome[c].value :
                OneTrailingSlash(outcome[c].value[k].static_url)

\* C12: the static url stored in every entry, which is the prefix of every
\* tag of the entry, ends with a slash: it is the static_url given when that
\* ends with a slash (however many), and the static_url given followed by one
\* slash otherwise, so it ends with exactly one slash unless the static_url
\* given ended with more than one.
C12_TrailingSlash ==
    \A c \in Callers :
        Built(c) =>
            \A k \in DOMAIN outcome[c].value :
                LET e == outcome[c].value[k]
                    given == args[c].static_url
                IN /\ EndsWithSlash(e.static_url)
                   /\ IF EndsWithSlash(given)
                      THEN e.static_url = given
                      ELSE e.static_url = given \o <<"/">>
                   /\ ~OneTrailingSlash(e.static_url) =>
                         /\ Len(given) >= 2
                         /\ given[Len(given)] = "/"
                         /\ given[Len(given) - 1] = "/"
                   /\ e.js = Tags("<script src=\"", e.static_url, e.rel_js,
                                  "\"></script>")
                   /\ e.css = Tags("<link rel=\"stylesheet\" href=\"",
                                   e.static_url, e.rel_css, "\">")

\* a manifest with a tag, built with a static url that ended with a slash
C12_Witness ==
    \E c \in Callers :
        /\ Built(c)
        /\ args[c].static_url = <<"/", "s", "/">>
        /\ outcome[c].value["main"].static_url = <<"/", "s", "/">>
        /\ outcome[c].value["main"].js /= <<>>

\* a step of the load of caller c
StepOf(c) == pc'[c] /= pc[c] /\ pc'[c] /= "idle"

C13_DebugReads ==
    \A c \in Callers :
        pc[c] = "done" /\ args[c].debug =>
            /\ hist[c].reads >= 1
            /\ outcome[c].kind = "return" =>
                  /\ hist[c].opens >= 1
                  /\ outcome[c].value =
                        WebpackManifest(frame[c].data["files"], args[c].static_url)

C13_DebugStep ==
    \A c \in Callers :
        StepOf(c) /\ args'[c].debug =>
            /\ MANIFEST_CACHE' = MANIFEST_CACHE
            /\ pc[c] = "idle" => pc'[c] = "check"

\* C13: a debug load always calls read, even when its path is cached, and
\* what it returns is the manifest of the content it read last; no step of a
\* debug load changes the cache, so an entry of its path stays what it was.
C13_DebugBypassesCache == []C13_DebugReads /\ [][C13_DebugStep]_vars

\* a debug load of a cached path has returned a manifest that is not the
\* cached one, which is still in the cache
C13_Witness ==
    \E c \in Callers :
        /\ pc[c] = "done"
        /\ args[c].debug
        /\ hist[c].cached
        /\ outcome[c].kind = "return"
        /\ args[c].path \in DOMAIN MANIFEST_CACHE
        /\ outcome[c].value /= MANIFEST_CACHE[args[c].path]

C14_FailedLoad ==
    \A c \in Callers :
        /\ pc[c] = "done" /\ ~args[c].debug /\ ~hist[c].cached =>
              /\ hist[c].reads >= 1
              /\ outcome[c].kind = "raise" => args[c].path \notin DOMAIN MANIFEST_CACHE
        /\ CacheHit(c) => outcome[c].kind = "return"

C14_CacheStep ==
    \A c \in Callers :
        StepOf(c) =>
            IF /\ pc[c] = "finish"
               /\ ~args[c].debug
               /\ outcome'[c].kind = "return"
            THEN MANIFEST_CACHE' =
                    [p \in DOMAIN MANIFEST_CACHE \cup {args[c].path} |->
                        IF p = args[c].path THEN outcome'[c].value
                        ELSE MANIFEST_CACHE[p]]
            ELSE MANIFEST_CACHE' = MANIFEST_CACHE

\* C14: the only step of a load that changes the cache is the end of a
\* non-debug build that returns its manifest, which stores that manifest
\* under the path; a load that ends in an error has left the cache as it
\* was, so in the single-threaded program the path of a failed non-debug load
\* is still not cached, and the next non-debug load of it calls read.
C14_ErrorsLeaveCache == []C14_FailedLoad /\ [][C14_CacheStep]_vars

\* a non-debug load has read the file and failed with the build-errors
\* error, and the cache is as empty as before
C14_Witness ==
    \E c \in Callers :
        /\ pc[c] = "done"
        /\ ~args[c].debug
        /\ outcome[c].kind = "raise"
        /\ outcome[c].exc = "WebpackError"
        /\ MANIFEST_CACHE = EmptyDict
        /\ hist[c].opens = 1

C17_HitIgnoresUrl ==
    \A c \in Callers :
        CacheHit(c) =>
            /\ outcome[c].value = MANIFEST_CACHE[args[c].path]
            /\ hist[c].reads = 0

C17_KeyStep ==
    \A c \in Callers :
        LET p == args'[c].path IN
        /\ StepOf(c) /\ pc[c] = "finish" /\ p \in DOMAIN MANIFEST_CACHE' =>
              IF p \in DOMAIN MANIFEST_CACHE
              THEN MANIFEST_CACHE'[p] = MANIFEST_CACHE[p]
              ELSE MANIFEST_CACHE'[p] =
                      WebpackManifest(frame[c].data["files"], args[c].static_url)
        /\ StepOf(c) /\ pc[c] = "idle" /\ ~args'[c].debug
              /\ p \in DOMAIN MANIFEST_CACHE =>
              /\ pc'[c] = "done"
              /\ outcome'[c] = Returned(MANIFEST_CACHE[p])
              /\ MANIFEST_CACHE' = MANIFEST_CACHE

\* C17: in the single-threaded program, the entry of a path is the manifest
\* built with the static_url of the non-debug load that stored it; a later
\* non-debug load of the path returns that entry and leaves it as it is,
\* whatever static_url it was given.
C17_KeyedByPath == []C17_HitIgnoresUrl /\ [][C17_KeyStep]_vars

\* a non-debug load with static_url "/t/" has returned a manifest whose
\* prefix and tag were built with "/s"
C17_Witness ==
    \E c \in Callers :
        /\ CacheHit(c)
        /\ args[c].static_url = <<"/", "t", "/">>
        /\ "main" \in DOMAIN outcome[c].value
        /\ outcome[c].value["main"].static_url = <<"/", "s", "/">>
        /\ Len(outcome[c].value["main"].js) > 3
        /\ SubSeq(outcome[c].value["main"].js, 2, 4) = <<"/", "s", "/">>

C18_OnlyBuildingSeen ==
    \A c \in Callers :
        /\ TimedOut(c) =>
              /\ args[c].debug
              /\ \A i \in 1..Len(hist[c].seen) : hist[c].seen[i] = BUILDING_STATUS
        /\ (\E i \in 1..Len(hist[c].seen) : hist[c].seen[i] /= BUILDING_STATUS) =>
              /\ pc[c] \in {"finish", "done"}
              /\ Last(hist[c].seen) /= BUILDING_STATUS
              /\ ~TimedOut(c)

C18_CheckStep ==
    \A c \in Callers :
        /\ StepOf(c) /\ outcome'[c].exc = "WebpackManifestBuildingStatusTimeout" =>
              /\ pc[c] = "poll"
              /\ args[c].debug
              /\ now' >= now + PollInterval
              /\ hist'[c].poll_sleeps = hist[c].poll_sleeps + 1
              /\ hist'[c].reads = hist[c].reads
              /\ now' - hist[c].entered > args[c].timeout
        /\ StepOf(c) /\ pc[c] = "poll" /\ pc'[c] /= "done" =>
              /\ pc'[c] = "check"
              /\ now' >= now + PollInterval
              /\ now' - hist[c].entered <= args[c].timeout
              /\ hist'[c].reads = hist[c].reads

\* C18: only a debug load raises the build-timeout error, and only when every
\* status it has read is "building": a read of any other status is the last
\* read of the load, which then ends without that error.  The error is raised
\* by the deadline test that follows the sleep of a poll iteration, and the
\* next read is made only after that test has passed.
C18_TimeoutOnlyWhileBuilding == []C18_OnlyBuildingSeen /\ [][C18_CheckStep]_vars

\* a load has timed out after a read that did not parse was retried and
\* every read that parsed was "building"
C18_Witness ==
    \E c \in Callers :
        /\ TimedOut(c)
        /\ hist[c].retry_sleeps >= 1
        /\ Len(hist[c].seen) >= 2

\* a non-debug load that missed the cache and has returned what it built
MissedAndBuilt(c) ==
    /\ pc[c] = "done"
    /\ ~args[c].debug
    /\ ~hist[c].cached
    /\ outcome[c].kind = "return"

C15_CompleteEntry ==
    /\ \A p \in DOMAIN MANIFEST_CACHE : MANIFEST_CACHE[p] \in BuiltManifests
    /\ \A c \in Callers :
          MissedAndBuilt(c) =>
              /\ hist[c].opens >= 1
              /\ args[c].path \in DOMAIN MANIFEST_CACHE
    /\ (\A c \in Callers : MissedAndBuilt(c) /\ args[c].path = AbsPath) =>
          \E c \in Callers : MANIFEST_CACHE[AbsPath] = outcome[c].value

C15_WriteStep ==
    /\ \A c \in Callers :
          StepOf(c) /\ pc[c] = "finish" /\ outcome'[c].kind = "return" =>
              /\ args[c].path \in DOMAIN MANIFEST_CACHE'
              /\ MANIFEST_CACHE'[args[c].path] = outcome'[c].value
    /\ MANIFEST_CACHE' /= MANIFEST_CACHE =>
          \E c \in Callers :
              StepOf(c) /\ pc[c] = "finish" /\ outcome'[c].kind = "return"

\* C15: with two callers of non-debug load on one path and no
\* synchronization, a caller that missed the cache reads and builds whatever
\* the other one does, and each build that returns stores its manifest under
\* the path, over the entry of the other; nothing else writes the cache.  So
\* an entry is always the whole manifest of one build that returned, and when
\* both calls have returned it is the manifest of the one that stored last.
C15_LastWriterWins == []C15_CompleteEntry /\ [][C15_WriteStep]_vars

\* both callers missed the cache and built, from different contents of the
\* file; the entry is the manifest of the worker, not the one of main
C15_Witness ==
    /\ \A c \in Callers : MissedAndBuilt(c) /\ hist[c].opens >= 1
    /\ outcome["main"].value /= outcome["worker"].value
    /\ frame["main"].data /= frame["worker"].data
    /\ MANIFEST_CACHE[AbsPath] = outcome["worker"].value

\* the load of caller c is under way
Running(c) == pc[c] \notin {"idle", "done"}

C16_Bounded ==
    \A c \in Callers :
        /\ hist[c].retry_sleeps <= hist[c].reads
        /\ hist[c].reads <= 2 * (hist[c].poll_sleeps + 1)
        /\ ~args[c].debug =>
              /\ hist[c].reads <= 2
              /\ hist[c].retry_sleeps <= 1
              /\ hist[c].poll_sleeps = 0
              /\ Len(hist[c].seen) <= 1
        /\ args[c].debug =>
              /\ hist[c].poll_sleeps * PollInterval <= args[c].timeout + PollInterval
              /\ pc[c] = "poll" =>
                    /\ Last(hist[c].seen) = BUILDING_STATUS
                    /\ hist[c].checked - hist[c].entered <= args[c].timeout
              /\ Len(hist[c].seen) >= 2 =>
                    \A i \in 1..(Len(hist[c].seen) - 1) :
                        hist[c].seen[i] = BUILDING_STATUS

C16_Terminates == \A c \in Callers : Running(c) ~> pc[c] = "done"

\* C16: every load ends, whatever the bundler does to the file, as long as
\* the calling thread runs and the clock advances with its sleeps.  A
\* non-debug load makes at most two calls of read (one retry), sleeps at
\* most once and never polls.  A debug load stays in the poll loop only while
\* the status it read last is "building" and the last deadline test passed:
\* it makes no read after a status that is not "building", and no more poll
\* iterations than fit in timeout, plus one.
C16_EveryLoadEnds == []C16_Bounded /\ C16_Terminates

\* a debug load has ended after two poll iterations, the bundler having
\* rewritten the file while it ran
C16_Witness ==
    \E c \in Callers :
        /\ pc[c] = "done"
        /\ args[c].debug
        /\ hist[c].poll_sleeps = 2
        /\ hist[c].retry_sleeps >= 1

====
